---- MODULE Spec2Model ----
(***************************************************************************)
(* Model of three pieces of the svd crates:                                *)
(*   - svd-rs      EnumeratedValue, its builder, modify_from and validate  *)
(*   - svd-encoder <Register as Encode>::encode                            *)
(*   - svd-parser  ElementExt::get_text / get_child_text_opt /             *)
(*                 get_child_text                                          *)
(* Option<T> is a sequence of length at most one: None is <<>> and         *)
(* Some(x) is <<x>>.  Strings that the code inspects character by          *)
(* character (names, element text) are sequences of one-character strings. *)
(***************************************************************************)
EXTENDS Integers, Sequences, FiniteSets, TLC

VARIABLES
    builder,       \* the EnumeratedValueBuilder being filled in
    explicitNone,  \* optional fields whose setter was last called with None
    ev,            \* Option<EnumeratedValue>: the entity held by the caller
    op,            \* the last operation of the EnumeratedValue API
    lvl,           \* the ValidateLevel passed to the last operation
    arg,           \* Option<builder>: the builder consumed by the last build / modify_from
    argNone,       \* explicitNone of the consumed builder
    pre,           \* Option<EnumeratedValue>: the entity before the last modify_from
    res,           \* the Result of the last operation
    reg,           \* the Register handed to encode
    encOut,        \* Option<Result<Element, EncodeError>> of the last encode
    node,          \* the XML node queried by the parser helpers
    key,           \* the tag name passed to the last parser helper
    idx,           \* the child the last get_text was called on (0: none)
    pop,           \* the last parser helper called
    pres           \* the Result of the last parser helper

vars == <<builder, explicitNone, ev, op, lvl, arg, argNone, pre, res,
          reg, encOut, node, key, idx, pop, pres>>

evVars == <<builder, explicitNone, ev, op, lvl, arg, argNone, pre, res>>
encVars == <<reg, encOut>>
parseVars == <<node, key, idx, pop, pres>>

None == <<>>
Some(x) == <<x>>
IsSome(o) == o # <<>>

\* ------------------------------------------------------------------------
\* Bounds of the model
\* ------------------------------------------------------------------------
MaxValue == 1
MaxChildren == 2
MaxKids == 2

\* ------------------------------------------------------------------------
\* svd-rs: EnumeratedValue
\* ------------------------------------------------------------------------
Levels == {"Disabled", "Weak", "Strict"}

IsDisabled(l) == l = "Disabled"
IsStrict(l) == l = "Strict"

LegalChars ==
    {"_", "0", "1", "2", "3", "4", "5", "6", "7", "8", "9",
     "A", "B", "C", "D", "E", "F", "G", "H", "I", "J", "K", "L", "M",
     "N", "O", "P", "Q", "R", "S", "T", "U", "V", "W", "X", "Y", "Z",
     "a", "b", "c", "d", "e", "f", "g", "h", "i", "j", "k", "l", "m",
     "n", "o", "p", "q", "r", "s", "t", "u", "v", "w", "x", "y", "z"}

\* Names the callers pass: two identifier-like ones and one with an illegal character.
Names == {<<"A">>, <<"f", "o", "o">>, <<"b", "!">>}
Descriptions == {"", "d"}
Values == 0..MaxValue

OptNames == {None} \cup {Some(n) : n \in Names}
OptDescriptions == {None} \cup {Some(d) : d \in Descriptions}
OptValues == {None} \cup {Some(v) : v \in Values}
OptBools == {None} \cup {Some(b) : b \in BOOLEAN}

OkRes == [kind |-> "Ok", field |-> "", value |-> None]
ErrUninitialized(f) == [kind |-> "Uninitialized", field |-> f, value |-> None]
ErrAbsentValue == [kind |-> "AbsentValue", field |-> "", value |-> None]
ErrValueAndDefault(v) == [kind |-> "ValueAndDefault", field |-> "", value |-> v]
ErrName(f) == [kind |-> "NameError", field |-> f, value |-> None]

\* check_name: the name-format rule (only identifier characters).
check_name(name, tag) ==
    IF \A i \in 1..Len(name) : name[i] \in LegalChars THEN OkRes ELSE ErrName(tag)

\* EmptyToNone for Option<String>: Some("") becomes None.
empty_to_none(o) == IF o = Some("") THEN None ELSE o

\* EnumeratedValue::is_default(&self)
is_default(e) == e.is_default = Some(TRUE)

\* EnumeratedValueBuilder::default()
DefaultBuilder == [name |-> None, description |-> None, value |-> None, is_default |-> None]

\* From<EnumeratedValue> for EnumeratedValueBuilder
BuilderFrom(e) ==
    [name |-> Some(e.name), description |-> e.description,
     value |-> e.value, is_default |-> e.is_default]

\* Plausible faults of validate, used to show that the properties below depend on it.
validate_AbsentOnlyStrict(e, l) ==
    IF ~IsDisabled(l)
    THEN IF IsStrict(l) /\ check_name(e.name, "name") # OkRes
         THEN check_name(e.name, "name")
         ELSE IF ~IsSome(e.value) /\ ~is_default(e) /\ IsStrict(l) THEN ErrAbsentValue
              ELSE IF IsSome(e.value) /\ is_default(e) /\ IsStrict(l)
                   THEN ErrValueAndDefault(e.value)
                   ELSE OkRes
    ELSE OkRes

validate_NoExclusivity(e, l) ==
    IF ~IsDisabled(l)
    THEN IF IsStrict(l) /\ check_name(e.name, "name") # OkRes
         THEN check_name(e.name, "name")
         ELSE IF ~IsSome(e.value) /\ ~is_default(e) THEN ErrAbsentValue
              ELSE OkRes
    ELSE OkRes

validate_LosesValue(e, l) ==
    IF ~IsDisabled(l)
    THEN IF IsStrict(l) /\ check_name(e.name, "name") # OkRes
         THEN check_name(e.name, "name")
         ELSE IF ~IsSome(e.value) /\ ~is_default(e) THEN ErrAbsentValue
              ELSE IF IsSome(e.value) /\ is_default(e) /\ IsStrict(l)
                   THEN ErrValueAndDefault(None)
                   ELSE OkRes
    ELSE OkRes

validate_ExclusiveAtWeak(e, l) ==
    IF ~IsDisabled(l)
    THEN IF IsStrict(l) /\ check_name(e.name, "name") # OkRes
         THEN check_name(e.name, "name")
         ELSE IF ~IsSome(e.value) /\ ~is_default(e) THEN ErrAbsentValue
              ELSE IF IsSome(e.value) /\ is_default(e) /\ ~IsStrict(l)
                   THEN ErrValueAndDefault(e.value)
                   ELSE OkRes
    ELSE OkRes

\* EnumeratedValue::validate(&self, lvl)
validate(e, l) ==
    IF ~IsDisabled(l)
    THEN IF IsStrict(l) /\ check_name(e.name, "name") # OkRes
         THEN check_name(e.name, "name")
         ELSE IF ~IsSome(e.value) /\ ~is_default(e) THEN ErrAbsentValue
              ELSE IF IsSome(e.value) /\ is_default(e) /\ IsStrict(l)
                   THEN ErrValueAndDefault(e.value)
                   ELSE OkRes
    ELSE OkRes

\* A fault of build: a missing name defaults to the empty string.
build_DefaultName(b, l) ==
    LET e == [name |-> IF IsSome(b.name) THEN b.name[1] ELSE <<>>,
              description |-> empty_to_none(b.description),
              value |-> b.value, is_default |-> b.is_default]
        r == validate(e, l)
    IN  IF r = OkRes THEN [res |-> OkRes, ev |-> Some(e)] ELSE [res |-> r, ev |-> None]

\* EnumeratedValueBuilder::build(self, lvl): the Result, as the error (or Ok) and
\* the entity returned.
build(b, l) ==
    IF ~IsSome(b.name)
    THEN [res |-> ErrUninitialized("name"), ev |-> None]
    ELSE LET e == [name |-> b.name[1],
                   description |-> empty_to_none(b.description),
                   value |-> b.value, is_default |-> b.is_default]
             r == validate(e, l)
         IN  IF r = OkRes THEN [res |-> OkRes, ev |-> Some(e)]
                          ELSE [res |-> r, ev |-> None]

\* The fields of the entity after the builder's set fields were assigned.
Overlay(e, b) ==
    [name |-> IF IsSome(b.name) THEN b.name[1] ELSE e.name,
     description |-> IF IsSome(b.description) THEN empty_to_none(b.description)
                                              ELSE e.description,
     value |-> IF IsSome(b.value) THEN b.value ELSE e.value,
     is_default |-> IF IsSome(b.is_default) THEN b.is_default ELSE e.is_default]

\* Faults of modify_from: value assigned unconditionally; is_default never
\* assigned; roll back on failure.
modify_from_AlwaysValue(e, b, l) ==
    LET e2 == [Overlay(e, b) EXCEPT !.value = b.value]
    IN  [ev |-> e2, res |-> validate(e2, l)]

modify_from_SkipsDefault(e, b, l) ==
    LET e2 == [Overlay(e, b) EXCEPT !.is_default = e.is_default]
    IN  [ev |-> e2, res |-> validate(e2, l)]

modify_from_Rollback(e, b, l) ==
    LET e2 == Overlay(e, b)
        r == validate(e2, l)
    IN  [ev |-> IF r = OkRes THEN e2 ELSE e, res |-> r]

\* EnumeratedValue::modify_from(&mut self, builder, lvl): the entity afterwards
\* and the Result returned.
modify_from(e, b, l) ==
    LET e2 == Overlay(e, b)
    IN  [ev |-> e2, res |-> validate(e2, l)]

\* ---- operations of the EnumeratedValue API ----

Touch(o) ==
    /\ op' = o
    /\ lvl' = "Disabled"
    /\ arg' = None
    /\ argNone' = {}
    /\ pre' = None
    /\ res' = OkRes

\* EnumeratedValue::builder()
NewBuilder ==
    /\ builder' = DefaultBuilder
    /\ explicitNone' = {}
    /\ Touch("builder")
    /\ UNCHANGED <<ev, encVars, parseVars>>

\* EnumeratedValueBuilder::from(e)
FromEntity ==
    /\ IsSome(ev)
    /\ builder' = BuilderFrom(ev[1])
    /\ explicitNone' = {}
    /\ Touch("from")
    /\ UNCHANGED <<ev, encVars, parseVars>>

\* EnumeratedValueBuilder::name(value)
SetName ==
    \E n \in Names :
        /\ builder' = [builder EXCEPT !.name = Some(n)]
        /\ Touch("name")
        /\ UNCHANGED <<explicitNone, ev, encVars, parseVars>>

\* EnumeratedValueBuilder::description(value)
SetDescription ==
    \E d \in OptDescriptions :
        /\ builder' = [builder EXCEPT !.description = d]
        /\ explicitNone' = IF d = None THEN explicitNone \cup {"description"}
                                       ELSE explicitNone \ {"description"}
        /\ Touch("description")
        /\ UNCHANGED <<ev, encVars, parseVars>>

\* EnumeratedValueBuilder::value(value)
SetValue ==
    \E v \in OptValues :
        /\ builder' = [builder EXCEPT !.value = v]
        /\ explicitNone' = IF v = None THEN explicitNone \cup {"value"}
                                       ELSE explicitNone \ {"value"}
        /\ Touch("value")
        /\ UNCHANGED <<ev, encVars, parseVars>>

\* EnumeratedValueBuilder::is_default(value)
SetIsDefault ==
    \E d \in OptBools :
        /\ builder' = [builder EXCEPT !.is_default = d]
        /\ explicitNone' = IF d = None THEN explicitNone \cup {"is_default"}
                                       ELSE explicitNone \ {"is_default"}
        /\ Touch("is_default")
        /\ UNCHANGED <<ev, encVars, parseVars>>

\* let ev = builder.build(lvl): the builder is consumed.
Build ==
    \E l \in Levels :
        LET r == build(builder, l)
        IN  /\ op' = "build"
            /\ lvl' = l
            /\ arg' = Some(builder)
            /\ argNone' = explicitNone
            /\ pre' = None
            /\ res' = r.res
            /\ ev' = r.ev
            /\ builder' = DefaultBuilder
            /\ explicitNone' = {}
            /\ UNCHANGED <<encVars, parseVars>>

\* ev.modify_from(builder, lvl): the builder is consumed.
ModifyFrom ==
    \E l \in Levels :
        /\ IsSome(ev)
        /\ LET r == modify_from(ev[1], builder, l)
           IN  /\ op' = "modify_from"
               /\ lvl' = l
               /\ arg' = Some(builder)
               /\ argNone' = explicitNone
               /\ pre' = ev
               /\ res' = r.res
               /\ ev' = Some(r.ev)
               /\ builder' = DefaultBuilder
               /\ explicitNone' = {}
               /\ UNCHANGED <<encVars, parseVars>>

\* ev.validate(lvl)
Validate ==
    \E l \in Levels :
        /\ IsSome(ev)
        /\ op' = "validate"
        /\ lvl' = l
        /\ arg' = None
        /\ argNone' = {}
        /\ pre' = None
        /\ res' = validate(ev[1], l)
        /\ UNCHANGED <<builder, explicitNone, ev, encVars, parseVars>>

\* ------------------------------------------------------------------------
\* svd-encoder: <Register as Encode>::encode
\* ------------------------------------------------------------------------
Tags == {"name", "dim"}
AttrKeys == {"derivedFrom", "id"}
AttrValues == {"A", "B"}
EncodeErrors == {"E1", "E2"}

ChildSeqs == UNION {[1..n -> Tags] : n \in 0..MaxChildren}
AttrMaps ==
    UNION {[S -> AttrValues] : S \in {{}, {"derivedFrom"}, {"id"}}}
        \cup {[k \in AttrKeys |-> IF k = "id" THEN "A" ELSE v] : v \in AttrValues}

EncOk(el) == [ok |-> TRUE, el |-> Some(el), err |-> ""]
EncErr(e) == [ok |-> FALSE, el |-> None, err |-> e]
NoEncoding == EncErr("")

\* Element::new(name)
ElementNew(n) == [name |-> n, attributes |-> [k \in {} |-> ""], children |-> <<>>]

\* ElementMerge::merge(&mut self, r): r's children are appended, r's attributes
\* are inserted over self's.
merge(base, r) ==
    [name |-> base.name,
     attributes |-> [k \in DOMAIN base.attributes \cup DOMAIN r.attributes |->
                        IF k \in DOMAIN r.attributes THEN r.attributes[k]
                                                     ELSE base.attributes[k]],
     children |-> base.children \o r.children]

\* What info.encode() and array_info.encode() can return.
InfoEncodings ==
    {EncErr(e) : e \in EncodeErrors}
        \cup {EncOk([name |-> "register", attributes |-> a, children |-> c]) :
                a \in AttrMaps, c \in ChildSeqs}
DimEncodings ==
    {EncErr(e) : e \in EncodeErrors}
        \cup {EncOk([name |-> "dimElement", attributes |-> a, children |-> c]) :
                a \in AttrMaps, c \in ChildSeqs}

Registers ==
    {[variant |-> "Single", info |-> i, dim |-> NoEncoding] : i \in InfoEncodings}
        \cup {[variant |-> "Array", info |-> i, dim |-> d] :
                i \in InfoEncodings, d \in DimEncodings}

\* A fault of encode: the register info is merged before the dimension info.
encode_InfoFirst(r) ==
    IF r.variant = "Single" THEN r.info
    ELSE IF ~r.dim.ok THEN EncErr(r.dim.err)
    ELSE IF ~r.info.ok THEN EncErr(r.info.err)
    ELSE EncOk(merge(merge(ElementNew("register"), r.info.el[1]), r.dim.el[1]))

\* <Register as Encode>::encode(&self)
encode(r) ==
    IF r.variant = "Single" THEN r.info
    ELSE IF ~r.dim.ok THEN EncErr(r.dim.err)
    ELSE IF ~r.info.ok THEN EncErr(r.info.err)
    ELSE EncOk(merge(merge(ElementNew("register"), r.dim.el[1]), r.info.el[1]))

NoRegister == [variant |-> "Single", info |-> NoEncoding, dim |-> NoEncoding]

\* The caller obtains a register (it holds none).
LoadRegister ==
    \E r \in Registers :
        /\ reg = NoRegister
        /\ reg' = r
        /\ encOut' = None
        /\ UNCHANGED <<evVars, parseVars>>

\* The register and its encoding go out of scope.
DropRegister ==
    /\ reg # NoRegister
    /\ reg' = NoRegister
    /\ encOut' = None
    /\ UNCHANGED <<evVars, parseVars>>

\* register.encode()
EncodeRegister ==
    /\ reg # NoRegister
    /\ encOut = None
    /\ encOut' = Some(encode(reg))
    /\ UNCHANGED <<reg, evVars, parseVars>>

\* ------------------------------------------------------------------------
\* svd-parser: ElementExt for roxmltree::Node
\* ------------------------------------------------------------------------
Whitespace == {" ", "\t", "\n"}
ChildTags == {"name", "value"}
\* Node::text(): None for an element without a text child.
Texts == {None, Some(<<" ">>), Some(<<" ", "A", "\n">>), Some(<<"3">>)}
Kids == {[tag |-> t, text |-> x] : t \in ChildTags, x \in Texts}
Nodes ==
    {[tag |-> "enumeratedValue", text |-> None, children |-> c] :
        c \in UNION {[1..n -> Kids] : n \in 0..MaxKids}}

POk(v) == [kind |-> "Ok", tag |-> "", at |-> 0, val |-> v]
PErr(k, t, id) == [kind |-> k, tag |-> t, at |-> id, val |-> None]

RECURSIVE trim_start(_)
trim_start(s) ==
    IF s # <<>> /\ Head(s) \in Whitespace THEN trim_start(Tail(s)) ELSE s

RECURSIVE trim_end(_)
trim_end(s) ==
    IF s # <<>> /\ s[Len(s)] \in Whitespace THEN trim_end(SubSeq(s, 1, Len(s) - 1)) ELSE s

\* str::trim
trim(s) == trim_end(trim_start(s))

\* The children of n as nodes that carry their identity: the parent is node 0,
\* its i-th child is node i.
ChildNode(n, i) == [tag |-> n.children[i].tag, text |-> n.children[i].text, id |-> i]
SelfNode(n) == [tag |-> n.tag, text |-> n.text, id |-> 0]

\* ElementExt::get_child: the first child with the tag name k.
get_child(n, k) ==
    LET hits == {i \in 1..Len(n.children) : n.children[i].tag = k}
    IN  IF hits = {} THEN None
        ELSE Some(ChildNode(n, CHOOSE i \in hits : \A j \in hits : i <= j))

\* ElementExt::get_text
get_text(c) ==
    IF IsSome(c.text) THEN POk(Some(trim(c.text[1])))
                      ELSE PErr("EmptyTag", c.tag, c.id)

\* A fault of get_child_text_opt: the EmptyTag error is passed on.
get_child_text_opt_Propagates(n, k) ==
    LET child == get_child(n, k)
    IN  IF IsSome(child) THEN get_text(child[1]) ELSE POk(None)

\* ElementExt::get_child_text_opt
get_child_text_opt(n, k) ==
    LET child == get_child(n, k)
    IN  IF IsSome(child)
        THEN LET r == get_text(child[1])
             IN  IF r.kind # "Ok"
                 THEN IF r.kind = "EmptyTag" THEN POk(None) ELSE r
                 ELSE POk(Some(r.val[1]))
        ELSE POk(None)

\* ElementExt::get_child_text
get_child_text(n, k) ==
    LET r == get_child_text_opt(n, k)
    IN  IF r.kind # "Ok" THEN r
        ELSE IF IsSome(r.val) THEN POk(r.val)
        ELSE PErr("MissingTag", k, SelfNode(n).id)

\* The parser moves to another node of the document.
LoadNode ==
    \E n \in Nodes :
        /\ node' = n
        /\ key' = ""
        /\ idx' = 0
        /\ pop' = "none"
        /\ pres' = POk(None)
        /\ UNCHANGED <<evVars, encVars>>

\* child.get_text()
GetText ==
    \E i \in 1..Len(node.children) :
        /\ pop' = "get_text"
        /\ idx' = i
        /\ key' = node.children[i].tag
        /\ pres' = get_text(ChildNode(node, i))
        /\ UNCHANGED <<node, evVars, encVars>>

\* node.get_child_text_opt(k)
GetChildTextOpt ==
    \E k \in ChildTags :
        /\ pop' = "get_child_text_opt"
        /\ idx' = 0
        /\ key' = k
        /\ pres' = get_child_text_opt(node, k)
        /\ UNCHANGED <<node, evVars, encVars>>

\* node.get_child_text(k)
GetChildText ==
    \E k \in ChildTags :
        /\ pop' = "get_child_text"
        /\ idx' = 0
        /\ key' = k
        /\ pres' = get_child_text(node, k)
        /\ UNCHANGED <<node, evVars, encVars>>

\* ------------------------------------------------------------------------
\* Specifications
\* ------------------------------------------------------------------------
IdleEv ==
    /\ builder = DefaultBuilder
    /\ explicitNone = {}
    /\ ev = None
    /\ op = "builder"
    /\ lvl = "Disabled"
    /\ arg = None
    /\ argNone = {}
    /\ pre = None
    /\ res = OkRes

IdleEnc ==
    /\ reg = NoRegister
    /\ encOut = None

IdleParse ==
    /\ node = [tag |-> "enumeratedValue", text |-> None, children |-> <<>>]
    /\ key = ""
    /\ idx = 0
    /\ pop = "none"
    /\ pres = POk(None)

Init == IdleEv /\ IdleEnc /\ IdleParse

Next ==
    \/ NewBuilder
    \/ FromEntity
    \/ SetName
    \/ SetDescription
    \/ SetValue
    \/ SetIsDefault
    \/ Build
    \/ ModifyFrom
    \/ Validate

Spec == Init /\ [][Next]_vars

NextEncode ==
    \/ LoadRegister
    \/ EncodeRegister
    \/ DropRegister

SpecEncode == Init /\ [][NextEncode]_vars

NextParse ==
    \/ LoadNode
    \/ GetText
    \/ GetChildTextOpt
    \/ GetChildText

SpecParse == Init /\ [][NextParse]_vars

\* ------------------------------------------------------------------------
\* Properties of EnumeratedValue (checked under Spec)
\* ------------------------------------------------------------------------
HasValue == IsSome(ev[1].value)
HasDefault == ev[1].is_default = Some(TRUE)
Accepted(l) == op = "validate" /\ lvl = l /\ res = OkRes

\* C1 (as stated): every entity that validate accepts at Weak or Strict has
\* exactly one of `value` present and `is_default == Some(true)`.
C1_ExactlyOneAtWeakAndStrict ==
    (Accepted("Weak") \/ Accepted("Strict")) => (HasValue # HasDefault)

\* C1 (amended): every entity that validate accepts at Strict has exactly one
\* of `value` present and `is_default == Some(true)`; every entity accepted at
\* Weak has at least one of them (both together are accepted at Weak).
C1_ExactlyOneAtStrict ==
    /\ Accepted("Strict") => (HasValue # HasDefault)
    /\ Accepted("Weak") => (HasValue \/ HasDefault)

C1_Witness == Accepted("Weak") /\ HasValue /\ HasDefault

BuiltFrom(l) == op = "build" /\ lvl = l /\ IsSome(arg)
ArgNameValid == IsSome(arg[1].name) /\ check_name(arg[1].name[1], "name") = OkRes

\* C2: a builder with a format-valid name, value = Some(v) and
\* is_default = Some(true) fails build(Strict) with ValueAndDefault(Some(v)) and
\* passes build(Weak), which returns an entity holding Some(v) and Some(true).
C2_ValueAndDefault ==
    \A l \in {"Weak", "Strict"} :
        (BuiltFrom(l) /\ ArgNameValid /\ IsSome(arg[1].value)
            /\ arg[1].is_default = Some(TRUE))
        => IF l = "Strict"
           THEN /\ res.kind = "ValueAndDefault"
                /\ res.value = arg[1].value
                /\ ev = None
           ELSE /\ res = OkRes
                /\ IsSome(ev)
                /\ ev[1].value = arg[1].value
                /\ ev[1].is_default = Some(TRUE)

C2_Witness ==
    /\ BuiltFrom("Strict") /\ ArgNameValid
    /\ arg[1].value = Some(1) /\ arg[1].is_default = Some(TRUE)
    /\ res.kind = "ValueAndDefault" /\ res.value = Some(1)

NeitherSet == arg[1].value = None /\ arg[1].is_default = None

\* C3 (as stated): a builder with a format-valid name and neither value nor
\* is_default builds without error at Weak and fails with AbsentValue at Strict.
C3_AbsentAcceptedAtWeak ==
    /\ (BuiltFrom("Weak") /\ ArgNameValid /\ NeitherSet) => res = OkRes
    /\ (BuiltFrom("Strict") /\ ArgNameValid /\ NeitherSet) => res.kind = "AbsentValue"

\* C3 (amended): a builder with a format-valid name and neither value nor
\* is_default fails with AbsentValue at Weak as well as at Strict, and no entity
\* is returned.
C3_AbsentRejectedAtWeakAndStrict ==
    \A l \in {"Weak", "Strict"} :
        (BuiltFrom(l) /\ ArgNameValid /\ NeitherSet)
        => (res.kind = "AbsentValue" /\ ev = None)

C3_Witness ==
    BuiltFrom("Weak") /\ ArgNameValid /\ NeitherSet /\ res.kind = "AbsentValue"

\* C4: build fails with Uninitialized("name") at every level when no name was
\* set, and build(Disabled) succeeds exactly when a name was set, whatever the
\* other fields are.
C4_DisabledNeedsOnlyName ==
    \A l \in Levels :
        BuiltFrom(l) =>
            /\ ~IsSome(arg[1].name) =>
                   (res.kind = "Uninitialized" /\ res.field = "name" /\ ev = None)
            /\ l = "Disabled" =>
                   /\ (res = OkRes) <=> IsSome(arg[1].name)
                   /\ IsSome(ev) <=> IsSome(arg[1].name)

C4_Witness ==
    /\ BuiltFrom("Disabled") /\ res = OkRes /\ IsSome(ev)
    /\ check_name(ev[1].name, "name") # OkRes
    /\ ev[1].value = None /\ ev[1].is_default = None

Modified == op = "modify_from" /\ IsSome(arg) /\ IsSome(pre) /\ IsSome(ev)

\* C5 (as stated): after modify_from every field absent from the builder keeps
\* its value and every field present in the builder takes the builder's value;
\* the call returns the validation of the resulting entity at lvl.
C5_OverlayTakesBuilderValue ==
    Modified =>
        /\ ev[1].name = IF IsSome(arg[1].name) THEN arg[1].name[1] ELSE pre[1].name
        /\ \A f \in {"description", "value", "is_default"} :
               ev[1][f] = IF IsSome(arg[1][f]) THEN arg[1][f] ELSE pre[1][f]
        /\ res = validate(ev[1], lvl)

\* C5 (amended): as stated, except that a description present in the builder as
\* the empty string is stored as None.
C5_OverlayNormalisesDescription ==
    Modified =>
        /\ ev[1].name = IF IsSome(arg[1].name) THEN arg[1].name[1] ELSE pre[1].name
        /\ \A f \in {"value", "is_default"} :
               ev[1][f] = IF IsSome(arg[1][f]) THEN arg[1][f] ELSE pre[1][f]
        /\ ev[1].description =
               IF arg[1].description = None THEN pre[1].description
               ELSE IF arg[1].description = Some("") THEN None
               ELSE arg[1].description
        /\ res = validate(ev[1], lvl)

C5_Witness ==
    /\ Modified
    /\ arg[1].description = Some("") /\ pre[1].description = Some("d")
    /\ ev[1].description = None
    /\ arg[1].value = None /\ IsSome(pre[1].value) /\ ev[1].value = pre[1].value

OptionalFields == {"description", "value", "is_default"}

\* C6 (as stated): modify_from with a builder on which the setter of an optional
\* field was called with None clears that field of the entity.
C6_ExplicitNoneClears ==
    Modified =>
        \A f \in OptionalFields :
            (f \in argNone /\ IsSome(pre[1][f])) => ev[1][f] = None

\* C6 (amended): a builder on which the setter of an optional field was called
\* with None holds the same field as one on which the setter was never called,
\* and modify_from with it leaves that field of the entity untouched.
C6_ExplicitNoneIsNotSet ==
    /\ \A f \in explicitNone : builder[f] = DefaultBuilder[f]
    /\ Modified =>
           \A f \in OptionalFields :
               f \in argNone => (arg[1][f] = DefaultBuilder[f] /\ ev[1][f] = pre[1][f])

C6_Witness ==
    /\ Modified
    /\ "value" \in argNone
    /\ IsSome(pre[1].value)
    /\ ev[1].value = pre[1].value

\* C7: an entity that validates at Strict validates at Weak, and one that
\* validates at Weak validates at Disabled.
C7_Monotone ==
    IsSome(ev) =>
        /\ validate(ev[1], "Strict") = OkRes => validate(ev[1], "Weak") = OkRes
        /\ validate(ev[1], "Weak") = OkRes => validate(ev[1], "Disabled") = OkRes
        /\ Accepted("Strict") => validate(ev[1], "Weak") = OkRes
        /\ Accepted("Weak") => validate(ev[1], "Disabled") = OkRes

C7_Witness ==
    /\ Accepted("Strict")
    /\ IsSome(ev[1].value)

\* C10: when modify_from returns an error the entity holds the overlaid fields,
\* not the fields it had before the call, and validate(lvl) rejects it.
C10_NoRollback ==
    (Modified /\ res # OkRes) =>
        /\ IsSome(arg[1].name) => ev[1].name = arg[1].name[1]
        /\ IsSome(arg[1].value) => ev[1].value = arg[1].value
        /\ IsSome(arg[1].is_default) => ev[1].is_default = arg[1].is_default
        /\ validate(ev[1], lvl) # OkRes

C10_Witness ==
    /\ Modified /\ lvl = "Strict"
    /\ validate(pre[1], lvl) = OkRes
    /\ res.kind = "ValueAndDefault"
    /\ ev # pre
    /\ validate(ev[1], lvl) # OkRes

\* ------------------------------------------------------------------------
\* Properties of Register::encode (checked under SpecEncode)
\* ------------------------------------------------------------------------
Encoded == IsSome(encOut)
BothOk == reg.variant = "Array" /\ reg.dim.ok /\ reg.info.ok

\* C8: for the Array variant encode returns one element named "register" whose
\* children are the dimension children followed by the register-info children
\* and whose attributes are those of both, the register-info value winning a
\* collision; for the Single variant it returns info.encode() as it is; a
\* failing sub-encoding's error is returned and no element is produced.
C8_EncodeShape ==
    Encoded =>
        LET o == encOut[1]
        IN  /\ reg.variant = "Single" => o = reg.info
            /\ BothOk =>
                   LET d == reg.dim.el[1]
                       i == reg.info.el[1]
                       e == o.el[1]
                   IN  /\ o.ok
                       /\ e.name = "register"
                       /\ e.children = d.children \o i.children
                       /\ DOMAIN e.attributes = DOMAIN d.attributes \cup DOMAIN i.attributes
                       /\ \A k \in DOMAIN i.attributes : e.attributes[k] = i.attributes[k]
                       /\ \A k \in DOMAIN d.attributes \ DOMAIN i.attributes :
                              e.attributes[k] = d.attributes[k]
            /\ (reg.variant = "Array" /\ ~reg.dim.ok) =>
                   (~o.ok /\ o.el = None /\ o.err = reg.dim.err)
            /\ (reg.variant = "Array" /\ reg.dim.ok /\ ~reg.info.ok) =>
                   (~o.ok /\ o.el = None /\ o.err = reg.info.err)

C8_Witness ==
    /\ Encoded /\ BothOk
    /\ reg.dim.el[1].children = <<"dim">>
    /\ reg.info.el[1].children = <<"name", "dim">>
    /\ "derivedFrom" \in DOMAIN reg.dim.el[1].attributes
    /\ "derivedFrom" \in DOMAIN reg.info.el[1].attributes
    /\ reg.dim.el[1].attributes["derivedFrom"] = "A"
    /\ reg.info.el[1].attributes["derivedFrom"] = "B"
    /\ encOut[1].el[1].children = <<"dim", "name", "dim">>
    /\ encOut[1].el[1].attributes["derivedFrom"] = "B"

\* ------------------------------------------------------------------------
\* Properties of the parser helpers (checked under SpecParse)
\* ------------------------------------------------------------------------
\* The child that a lookup of `key` finds: the first one with that tag.
IsFirst(i) ==
    /\ i \in 1..Len(node.children)
    /\ node.children[i].tag = key
    /\ \A j \in 1..(i - 1) : node.children[j].tag # key
ChildAbsent == \A i \in 1..Len(node.children) : node.children[i].tag # key
ChildEmpty == \E i \in 1..Len(node.children) : IsFirst(i) /\ node.children[i].text = None

\* t is s without its leading and trailing whitespace.
IsTrimOf(t, s) ==
    \E a \in 0..Len(s) : \E b \in a..Len(s) :
        /\ t = SubSeq(s, a + 1, b)
        /\ \A j \in 1..a : s[j] \in Whitespace
        /\ \A j \in (b + 1)..Len(s) : s[j] \in Whitespace
        /\ t # <<>> => (t[1] \notin Whitespace /\ t[Len(t)] \notin Whitespace)

\* C9 (as stated): when the named child exists but has no text, the EmptyTag
\* error reaches the caller of get_child_text_opt and of get_child_text.
C9_EmptyTagReachesCaller ==
    (pop \in {"get_child_text_opt", "get_child_text"} /\ ChildEmpty)
        => pres.kind = "EmptyTag"

\* C9 (amended): get_text returns the trimmed text or an EmptyTag error; when
\* the named child exists but has no text, get_child_text_opt turns that
\* EmptyTag into Ok(None) and get_child_text reports MissingTag, exactly as
\* they do when the child is absent; a child with text yields its trimmed text.
C9_EmptyTagBecomesAbsent ==
    /\ pop = "get_text" =>
           LET c == node.children[idx]
           IN  IF c.text = None
               THEN pres.kind = "EmptyTag" /\ pres.tag = c.tag /\ pres.at = idx
               ELSE pres.kind = "Ok" /\ IsSome(pres.val) /\ IsTrimOf(pres.val[1], c.text[1])
    /\ (pop = "get_child_text_opt" /\ (ChildEmpty \/ ChildAbsent)) => pres = POk(None)
    /\ (pop = "get_child_text" /\ (ChildEmpty \/ ChildAbsent)) =>
           (pres.kind = "MissingTag" /\ pres.tag = key /\ pres.at = 0)
    /\ (pop \in {"get_child_text_opt", "get_child_text"}
            /\ ~ChildEmpty /\ ~ChildAbsent) =>
           \E i \in 1..Len(node.children) :
               /\ IsFirst(i)
               /\ pres.kind = "Ok" /\ IsSome(pres.val)
               /\ IsTrimOf(pres.val[1], node.children[i].text[1])

C9_Witness ==
    /\ pop = "get_child_text"
    /\ ChildEmpty
    /\ Len(node.children) = 2
    /\ node.children[2].tag = key /\ IsSome(node.children[2].text)
    /\ pres.kind = "MissingTag"
====
